---- MODULE Spec2Model ----
(***************************************************************************)
(* A model of the chunk cache, the Region and the greedy mesher of         *)
(* src/src/block.rs (World, CuboidRegion, Chunk::build_mesh).              *)
(*                                                                         *)
(* Scaling.  The program's chunk side is 32; the model's CHUNK_SIZE is a   *)
(* small bound.  Colours are triples of small integers (tenths) instead of *)
(* f32.  A usize is an integer, with the one wrapped value the code can    *)
(* produce (0 - 1 = usize::MAX) kept as the token MinusOne.                *)
(***************************************************************************)
EXTENDS Integers, Sequences, FiniteSets, TLC

\* ------------------------------------------------------------------ bounds
\* Side of a chunk (32 in the program, block.rs:264).
CHUNK_SIZE == 2
\* Chunk coordinates of the World run over (-MaxCoord..0) on x and z.
MaxCoord == 1
\* Chunk objects ever allocated in one behaviour (Rc::new in gen_chunk / Chunk::new).
MaxObj == 3
\* Handles to one chunk held by callers outside any Region.
MaxHeld == 1
\* Quads pushed by one build_mesh call in the index-emission specification.
MaxQuads == 16400
\* Corners of a CuboidRegion run over (-MaxCorner..0) on each of the three axes
\* in the Region specification.
MaxCorner == 1

\* -------------------------------------------------------- program constants
\* Width of the index type (indices: Vec<u16>, and so of quad_start).
INDEX_BITS == 16
\* Width of usize on the build targets (x86_64).
USIZE_BITS == 64

\* b^e mod m, by repeated squaring.
RECURSIVE PowMod(_, _, _)
PowMod(b, e, m) ==
    IF e = 0 THEN 1 % m
    ELSE IF e % 2 = 0
         THEN LET h == PowMod(b, e \div 2, m) IN (h * h) % m
         ELSE (b * PowMod(b, e - 1, m)) % m

Min(S) == CHOOSE x \in S : \A y \in S : x <= y

Range(s) == {s[i] : i \in DOMAIN s}

\* ------------------------------------------------------------ directions
\* The order in which build_mesh walks the directions.
DirOrder == <<"Up", "Down", "Left", "Right", "Front", "Back">>
Directions == Range(DirOrder)

to_vec_arr(dir) ==
    CASE dir = "Front" -> <<0, 1, 0>>
      [] dir = "Up"    -> <<0, 0, 1>>
      [] dir = "Right" -> <<1, 0, 0>>
      [] dir = "Back"  -> <<0, -1, 0>>
      [] dir = "Down"  -> <<0, 0, -1>>
      [] dir = "Left"  -> <<-1, 0, 0>>

to_index(dir) ==
    CASE dir = "Front" -> 0
      [] dir = "Up"    -> 1
      [] dir = "Right" -> 2
      [] dir = "Back"  -> 3
      [] dir = "Down"  -> 4
      [] dir = "Left"  -> 5

Neg(dir) ==
    CASE dir = "Front" -> "Back"
      [] dir = "Back"  -> "Front"
      [] dir = "Left"  -> "Right"
      [] dir = "Right" -> "Left"
      [] dir = "Up"    -> "Down"
      [] dir = "Down"  -> "Up"

\* ------------------------------------------------------- block render data
obscures_bit(dir) ==
    CASE dir = "Front" -> 1
      [] dir = "Up"    -> 2
      [] dir = "Right" -> 4
      [] dir = "Back"  -> 8
      [] dir = "Down"  -> 16
      [] dir = "Left"  -> 32

\* BlockRenderData::obscures: self.obscures & bit != 0.
obscures(brd, dir) == (brd.obscures \div obscures_bit(dir)) % 2 = 1

\* Option<T>: None is the empty tuple, Some(x) the one-element tuple.
None == <<>>
Some(x) == <<x>>

\* ----------------------------------------------------------------- usize
\* `-1isize as usize`, which is usize::MAX.
MinusOne == -1

\* usize::wrapping_add for the operands build_mesh uses: x in 0..CHUNK_SIZE-1
\* and an offset of 0, 1 or usize::MAX.
wrapping_add(x, off) ==
    CASE off = 0        -> x
      [] off = 1        -> x + 1
      [] off = MinusOne -> IF x = 0 THEN MinusOne ELSE x - 1

\* q >= CHUNK_SIZE on a usize.
GeChunkSize(q) == q = MinusOne \/ q >= CHUNK_SIZE

\* q % CHUNK_SIZE on a usize; usize::MAX is 2^USIZE_BITS - 1.
ModChunkSize(q) ==
    IF q = MinusOne
    THEN (PowMod(2, USIZE_BITS, CHUNK_SIZE) + CHUNK_SIZE - 1) % CHUNK_SIZE
    ELSE q % CHUNK_SIZE

\* ------------------------------------------------------------ build_mesh
Idx == 0..(CHUNK_SIZE - 1)
Cells == Idx \X Idx \X Idx
SliceCells == Idx \X Idx

\* (u, v, w) -> (x, y, z), the first match of the slice loop.
SliceXYZ(dir, u, v, w) ==
    CASE dir = "Up"    -> <<u, v, w>>
      [] dir = "Down"  -> <<v, u, w>>
      [] dir = "Left"  -> <<w, v, u>>
      [] dir = "Right" -> <<w, u, v>>
      [] dir = "Front" -> <<v, w, u>>
      [] dir = "Back"  -> <<u, w, v>>

\* (x_offset, y_offset, z_offset), the second match of the slice loop.
SliceOffset(dir) ==
    CASE dir = "Up"    -> <<0, 0, 1>>
      [] dir = "Down"  -> <<0, 0, MinusOne>>
      [] dir = "Left"  -> <<MinusOne, 0, 0>>
      [] dir = "Right" -> <<1, 0, 0>>
      [] dir = "Front" -> <<0, 1, 0>>
      [] dir = "Back"  -> <<0, MinusOne, 0>>

\* The slot of adj_chunks the boundary lookup reads for up_dir.
AdjSlot(dir) == to_index(Neg(dir))

\* The direction whose occlusion bit the neighbouring block is asked for.
OccludeDir(dir) == Neg(dir)

\* slice[u][v] for direction up_dir and layer w.  adj[i] is the block grid of
\* the chunk passed in adj_chunks[i], or None.
SliceCell(blocks, brd, adj, dir, u, v, w) ==
    LET p   == SliceXYZ(dir, u, v, w)
        off == SliceOffset(dir)
        q   == <<wrapping_add(p[1], off[1]), wrapping_add(p[2], off[2]),
                 wrapping_add(p[3], off[3])>>
        own == brd[blocks[p]]
    IN  IF ~own.should_render THEN None
        ELSE IF GeChunkSize(q[1]) \/ GeChunkSize(q[2]) \/ GeChunkSize(q[3])
        THEN IF adj[AdjSlot(dir)] # None
             THEN LET chunk == adj[AdjSlot(dir)][1]
                      qq == <<ModChunkSize(q[1]), ModChunkSize(q[2]), ModChunkSize(q[3])>>
                  IN  IF ~obscures(brd[chunk[qq]], OccludeDir(dir))
                      THEN Some(own.color) ELSE None
             ELSE Some(own.color)
        ELSE IF ~obscures(brd[blocks[q]], OccludeDir(dir))
             THEN Some(own.color) ELSE None

BuildSlice(blocks, brd, adj, dir, w) ==
    [c \in SliceCells |-> SliceCell(blocks, brd, adj, dir, c[1], c[2], w)]

\* ---------------------------------------------------------- greedy merge
\* while u + width < CHUNK_SIZE && slice[u + width][v] == Some(color)
RECURSIVE MergeWidth(_, _, _, _, _)
MergeWidth(slice, u, v, color, width) ==
    IF u + width < CHUNK_SIZE /\ slice[<<u + width, v>>] = Some(color)
    THEN MergeWidth(slice, u, v, color, width + 1)
    ELSE width

\* The 'outer loop: the first h in 1..CHUNK_SIZE-v-1 at which some cell of the
\* width-wide strip differs from Some(color), else CHUNK_SIZE - v.
MergeHeightOne(slice, u, v, color, width) == 1
MergeHeight(slice, u, v, color, width) ==
    LET bad == {h \in 1..(CHUNK_SIZE - v - 1) :
                  \E k \in 0..(width - 1) : slice[<<u + k, v + h>>] # Some(color)}
    IN  IF bad = {} THEN CHUNK_SIZE - v ELSE Min(bad)

\* for j in 0..height { for i in 0..width { slice[u + i][v + j] = None } }
ClearRectFirstRow(slice, u, v, width, height) ==
    [c \in DOMAIN slice |->
        IF c[1] \in u..(u + width - 1) /\ c[2] = v THEN None ELSE slice[c]]
ClearRect(slice, u, v, width, height) ==
    [c \in DOMAIN slice |->
        IF c[1] \in u..(u + width - 1) /\ c[2] \in v..(v + height - 1)
        THEN None ELSE slice[c]]

\* The while loops over (u, v): the rectangles found in one slice, in the order
\* found, each with the position and size it was emitted with.
RECURSIVE MergeSlice(_, _, _, _, _, _)
MergeSlice(slice, dir, w, u, v, acc) ==
    IF v >= CHUNK_SIZE THEN acc
    ELSE IF u >= CHUNK_SIZE THEN MergeSlice(slice, dir, w, 0, v + 1, acc)
    ELSE IF slice[<<u, v>>] = None THEN MergeSlice(slice, dir, w, u + 1, v, acc)
    ELSE LET color  == slice[<<u, v>>][1]
             width  == MergeWidth(slice, u, v, color, 1)
             height == MergeHeight(slice, u, v, color, width)
             quad   == [dir |-> dir, w |-> w, u |-> u, v |-> v,
                        width |-> width, height |-> height, color |-> color]
         IN  MergeSlice(ClearRect(slice, u, v, width, height), dir, w,
                        u + width, v, Append(acc, quad))

\* w_offset, the match before the vertices are pushed.
w_offset(dir) ==
    CASE dir = "Up"    -> 1
      [] dir = "Down"  -> 0
      [] dir = "Left"  -> 0
      [] dir = "Right" -> 1
      [] dir = "Front" -> 1
      [] dir = "Back"  -> 0

\* A vertex position from slice coordinates (a, b) and plane c, per direction.
VertexPosSwapped(dir, a, b, c) ==
    CASE dir = "Up"    -> <<b, a, c>>
      [] dir = "Down"  -> <<a, b, c>>
      [] dir = "Left"  -> <<c, a, b>>
      [] dir = "Right" -> <<c, b, a>>
      [] dir = "Front" -> <<a, c, b>>
      [] dir = "Back"  -> <<b, c, a>>
VertexPos(dir, a, b, c) ==
    CASE dir = "Up"    -> <<a, b, c>>
      [] dir = "Down"  -> <<b, a, c>>
      [] dir = "Left"  -> <<c, b, a>>
      [] dir = "Right" -> <<c, a, b>>
      [] dir = "Front" -> <<b, c, a>>
      [] dir = "Back"  -> <<a, c, b>>

\* The four data.push(Vertex { .. }) of one quad, in order.
QuadVertices(q) ==
    LET wf == q.w + w_offset(q.dir)
        uw == q.u + q.width
        vh == q.v + q.height
        V(a, b) == [position |-> VertexPos(q.dir, a, b, wf),
                    normal |-> to_vec_arr(q.dir), color |-> q.color]
    IN  <<V(q.u, vh), V(q.u, q.v), V(uw, vh), V(uw, q.v)>>

\* u16 arithmetic.  An overflowing `+` panics in a build with overflow checks
\* and wraps in one without; U16Add is the wrapped sum, U16Overflows says
\* whether the sum overflowed.
U16Add(a, b) == (a + b) % (2 ^ INDEX_BITS)
U16Overflows(a, b) == a + b >= 2 ^ INDEX_BITS

\* The six indices.push(quad_start + ..) of one quad.
QuadIndices(quad_start) ==
    <<U16Add(quad_start, 0), U16Add(quad_start, 1), U16Add(quad_start, 2),
      U16Add(quad_start, 3), U16Add(quad_start, 2), U16Add(quad_start, 1)>>

RECURSIVE Concat(_)
Concat(ss) == IF ss = <<>> THEN <<>> ELSE Head(ss) \o Concat(Tail(ss))

\* The quads of one direction: for w in 0..CHUNK_SIZE, the slice and its merge.
DirQuads(blocks, brd, adj, dir) ==
    Concat([i \in 1..CHUNK_SIZE |->
        MergeSlice(BuildSlice(blocks, brd, adj, dir, i - 1), dir, i - 1, 0, 0, <<>>)])

\* The quads of a whole build_mesh run, in emission order.
AllQuads(blocks, brd, adj) ==
    Concat([d \in 1..Len(DirOrder) |-> DirQuads(blocks, brd, adj, DirOrder[d])])

\* quad_start when n quads have been emitted: 0, then `quad_start += 4` per
\* quad, in wrapping u16 arithmetic (the step-by-step loop, with its panic in
\* a build with overflow checks, is EmitQuad below).
QuadStartAfter(n) == U16Add(0, 4 * n)

\* data after the pushes of all quads: four vertices per quad, in order.
MeshVertices(quads) ==
    [i \in 1..(4 * Len(quads)) |->
        QuadVertices(quads[((i - 1) \div 4) + 1])[((i - 1) % 4) + 1]]

\* indices after the pushes of all quads: six indices per quad, in order.
MeshIndices(quads) ==
    [i \in 1..(6 * Len(quads)) |->
        QuadIndices(QuadStartAfter((i - 1) \div 6))[((i - 1) % 6) + 1]]

\* data and indices as build_mesh leaves them before the buffers are created,
\* and with them, as a record of the run, the (up_dir, w, u, v, width, height,
\* color) each quad was emitted from.
MeshData(blocks, brd, adj) ==
    LET quads == AllQuads(blocks, brd, adj)
    IN  [data    |-> MeshVertices(quads),
         indices |-> MeshIndices(quads),
         quads   |-> quads]

\* ------------------------------------------------------------------ state
VARIABLES
    chunks,     \* World.chunks: chunk coordinate -> Weak<Chunk> (0: no entry)
    objs,       \* every Chunk allocated so far; a chunk's identity is its index.
                \* [coord (ghost; None for Chunk::new), blocks, mesh]
    held,       \* Rc<Chunk> handles held by callers outside any Region, per chunk
    regions,    \* the live CuboidRegions: [start_pos, shape, chunks]
    last,       \* the latest call, its arguments and what it returned (for
                \* draw: the draw_buffer calls it issued)
    panicked,   \* a panic has unwound out of the core
    emit        \* the index-emission loop of one build_mesh run, quad by quad

vars == <<chunks, objs, held, regions, last, panicked, emit>>

AxisX == (0 - MaxCoord)..0
AxisY == 0..0
AxisZ == (0 - MaxCoord)..0
Coords == AxisX \X AxisY \X AxisZ

\* ----------------------------------------------------------- World: cache
\* Rc::strong_count: handles held by callers plus slots of live Regions.
RECURSIVE CountIn(_, _)
CountIn(seq, x) ==
    IF seq = <<>> THEN 0
    ELSE (IF seq[1] = x THEN 1 ELSE 0) + CountIn(Tail(seq), x)

RECURSIVE RegionRefs(_, _)
RegionRefs(rs, o) ==
    IF rs = <<>> THEN 0 ELSE CountIn(rs[1].chunks, o) + RegionRefs(Tail(rs), o)

StrongCount(o) == held[o] + RegionRefs(regions, o)

\* Drop for Chunk: a chunk whose last Rc went away gives up its mesh buffers.
\* Its coordinate and blocks stay in the table as a record of what it was.
DropDead(heap, h, rs) ==
    [o \in DOMAIN heap |->
        IF h[o] + RegionRefs(rs, o) = 0 THEN [heap[o] EXCEPT !.mesh = None] ELSE heap[o]]

\* A chunk is alive while some Rc to it exists.
Alive(o) == o \in 1..Len(objs) /\ StrongCount(o) > 0

\* self.chunks.borrow().get(&[x, y, z]).and_then(Weak::upgrade)
UpgradeNever(c) == None
Upgrade(c) ==
    IF chunks[c] # 0 /\ StrongCount(chunks[c]) > 0 THEN Some(chunks[c]) ELSE None

\* self.generator.apply(&self.seed, &[x, y, z]) in units of 1/128:
\* the noise crate's Brownian3 over perlin3 with the seed fixed at construction,
\* a deterministic function of the position that the model fixes arbitrarily.
Noise(bx, by, bz) == ((bx + 2 * by + bz * bz + bx * by) % 3) - 1

\* density > 0.0, with density = -block_z / 128.0 + noise, both sides times 128.
DensityPositive(bx, by, bz) == (0 - bz) + Noise(bx, by, bz) > 0

\* The block grid gen_chunk writes for chunk (x, y, z).
GenBlocksReseeded(x, y, z) ==
    [p \in Cells |-> IF (Len(objs) + p[1]) % 2 = 0 THEN 1 ELSE 0]
GenBlocks(x, y, z) ==
    [p \in Cells |->
        IF DensityPositive(CHUNK_SIZE * x + p[1], CHUNK_SIZE * y + p[2],
                           CHUNK_SIZE * z + p[3])
        THEN 1 ELSE 0]

\* Chunk::new
NewChunk(coord, blocks) == [coord |-> coord, blocks |-> blocks, mesh |-> None]

\* World::get_chunk for each coordinate of cs in turn (gen_chunk on a miss):
\* the cache and heap afterwards and the chunks returned.  The coordinates of
\* cs are distinct, so each lookup reads the entry the call started with.
RECURSIVE FetchAll(_, _, _, _)
FetchAll(cs, cache, heap, got) ==
    IF cs = <<>> THEN [chunks |-> cache, objs |-> heap, got |-> got]
    ELSE LET c   == Head(cs)
             opt == Upgrade(c)
             rc  == Len(heap) + 1
         IN  IF opt # None
             THEN FetchAll(Tail(cs), cache, heap, Append(got, opt[1]))
             ELSE FetchAll(Tail(cs), [cache EXCEPT ![c] = rc],
                           Append(heap, NewChunk(c, GenBlocks(c[1], c[2], c[3]))),
                           Append(got, rc))

\* ------------------------------------------------------- Chunk::build_mesh
\* What the facade answers to VertexBuffer::new and IndexBuffer::new.
FacadeOutcomes == [vertex : BOOLEAN, index : BOOLEAN]
FacadeOk == [vertex |-> TRUE, index |-> TRUE]

Ok(x) == [ok |-> TRUE, val |-> x]
Err(e) == [ok |-> FALSE, err |-> e]

\* The value `res` of build_mesh when the cache is empty.
CreateBuffers(md, facade) ==
    IF ~facade.vertex THEN Err("VertexBufferCreationFailed")
    ELSE IF ~facade.index THEN Err("IndexBufferCreationFailed")
    ELSE Ok(md)

\* if let Ok(ref mesh) = res { *cache = Some(mesh.clone()) }
CacheAfterAlways(res) == Some([data |-> <<>>, indices |-> <<>>, quads |-> <<>>])
CacheAfter(res) == IF res.ok THEN Some(res.val) ELSE None

\* if let &Some((ref v, ref i)) = &*self.mesh.borrow() { return Ok(..) }
CachedNever(chunk) == None
Cached(chunk) == chunk.mesh

\* build_mesh on one chunk: what it returns and the chunk afterwards.
BuildMeshOn(chunk, brd, adj, facade) ==
    IF Cached(chunk) # None
    THEN [ret |-> Ok(Cached(chunk)[1]), chunk |-> chunk]
    ELSE LET res == CreateBuffers(MeshData(chunk.blocks, brd, adj), facade)
         IN  [ret |-> res, chunk |-> [chunk EXCEPT !.mesh = CacheAfter(res)]]

AllNone == [i \in 0..5 |-> None]

\* ------------------------------------------------------------ CuboidRegion
\* (s, e) of one axis: if end >= start { (start, end + 1) } else { (end, start + 1) }
AxisBoundsAsGiven(start, end) == <<start, end + 1>>
AxisBounds(start, end) ==
    IF end >= start THEN <<start, end + 1>> ELSE <<end, start + 1>>

\* The coordinates the three nested for loops of CuboidRegion::new visit.
RegionCoordsZOuter(bx, by, bz) ==
    Concat([k \in 1..(bz[2] - bz[1]) |->
      Concat([j \in 1..(by[2] - by[1]) |->
        [i \in 1..(bx[2] - bx[1]) |->
            <<bx[1] + i - 1, by[1] + j - 1, bz[1] + k - 1>>]])])
RegionCoords(bx, by, bz) ==
    Concat([i \in 1..(bx[2] - bx[1]) |->
      Concat([j \in 1..(by[2] - by[1]) |->
        [k \in 1..(bz[2] - bz[1]) |->
            <<bx[1] + i - 1, by[1] + j - 1, bz[1] + k - 1>>]])])

\* CuboidRegion::draw from array position i on: build (or reuse) the mesh of
\* each chunk with no neighbours, unwrap it, and issue its draw call.
RECURSIVE DrawFrom(_, _, _, _, _, _)
DrawFrom(r, i, brd, facades, heap, log) ==
    IF i > Len(r.chunks) THEN [objs |-> heap, draws |-> log, panicked |-> FALSE]
    ELSE LET o  == r.chunks[i]
             ny == r.shape[2]
             nz == r.shape[3]
             x  == r.start_pos[1] + ((i - 1) \div (ny * nz))
             y  == r.start_pos[2] + (((i - 1) \div nz) % ny)
             z  == r.start_pos[3] + ((i - 1) % nz)
             b  == BuildMeshOn(heap[o], brd, AllNone, facades[i])
         IN  IF ~b.ret.ok
             THEN [objs |-> [heap EXCEPT ![o] = b.chunk], draws |-> log,
                   panicked |-> TRUE]
             ELSE DrawFrom(r, i + 1, brd, facades, [heap EXCEPT ![o] = b.chunk],
                           Append(log, [translation |-> <<x * CHUNK_SIZE, y * CHUNK_SIZE,
                                                          z * CHUNK_SIZE>>,
                                        chunk |-> o]))

\* ------------------------------------------------------------------ inputs
\* The catalog StatePlaying::new builds: air, and one solid block that
\* occludes on all six sides.
Air == [obscures |-> 0, color |-> <<0, 0, 0>>, should_render |-> FALSE]
Solid == [obscures |-> 63, color |-> <<3, 4, 2>>, should_render |-> TRUE]

block_render_types == [b \in 0..1 |-> IF b = 0 THEN Air ELSE Solid]

\* Catalogs passed to build_mesh directly, indexed by block id from 0.  The
\* first extends the program's catalog by a block of another colour that
\* occludes upwards only; in the second block 1 occludes nothing and block 2
\* is a full occluder of the same colour.
CatalogA == [b \in 0..2 |->
    CASE b = 0 -> Air
      [] b = 1 -> Solid
      [] b = 2 -> [obscures |-> 2, color |-> <<5, 5, 5>>, should_render |-> TRUE]]
CatalogB == [b \in 0..2 |->
    CASE b = 0 -> Air
      [] b = 1 -> [obscures |-> 0, color |-> <<3, 4, 2>>, should_render |-> TRUE]
      [] b = 2 -> Solid]
Catalogs == {CatalogA, CatalogB}
BlockIds == 0..2

\* Block grids handed to Chunk::new: air with one box of a block id, and
\* optionally one corner cell of the box replaced by another block id.
LeqCell(a, b) == a[1] <= b[1] /\ a[2] <= b[2] /\ a[3] <= b[3]
BoxGrid(lo, hi, fill, notch, alt) ==
    [p \in Cells |->
        IF p = notch THEN alt
        ELSE IF LeqCell(lo, p) /\ LeqCell(p, hi) THEN fill ELSE 0]
GridInputs ==
    {BoxGrid(lo, hi, fill, <<>>, 0) :
        lo \in Cells, hi \in Cells, fill \in BlockIds \ {0}}
    \cup
    UNION {{BoxGrid(b[1], b[2], fill, n, alt) : n \in {b[1], b[2]}, alt \in BlockIds \ {fill}} :
            b \in {c \in Cells \X Cells : LeqCell(c[1], c[2])}, fill \in BlockIds \ {0}}

FullGrid(b) == [p \in Cells |-> b]

\* A few grids for the chunk whose cache is exercised: a full one, a slab and
\* a single block of another id.
ChunkGrids ==
    {FullGrid(1),
     [p \in Cells |-> IF p[3] = 0 THEN 1 ELSE 0],
     [p \in Cells |-> IF p = <<0, 0, 0>> THEN 2 ELSE 0]}

\* adj_chunks arguments for a chunk built on its own: no neighbour, or one
\* neighbour, full of block 1, in one slot.
AdjInputs ==
    {AllNone} \cup {[AllNone EXCEPT ![i] = Some(FullGrid(1))] : i \in 0..5}

\* The chunk coordinate adjacent to c in direction d.
CoordPlus(c, d) ==
    <<c[1] + to_vec_arr(d)[1], c[2] + to_vec_arr(d)[2], c[3] + to_vec_arr(d)[3]>>

\* Facade answers for one draw: every buffer creation succeeds, or the one at
\* array position k fails.
FacadeRuns(n) ==
    {[i \in 1..n |-> IF i = k THEN f ELSE FacadeOk] : k \in 1..n, f \in FacadeOutcomes}

\* ----------------------------------------------------------------- actions
NoCall == [op |-> "none"]
EmitInit == [quad_start |-> 0, quads |-> 0, data_len |-> 0, indices_len |-> 0,
             tail |-> <<>>, panicked |-> FALSE]

Init ==
    /\ chunks = [c \in Coords |-> 0]
    /\ objs = <<>>
    /\ held = [o \in 1..MaxObj |-> 0]
    /\ regions = <<>>
    /\ last = NoCall
    /\ panicked = FALSE
    /\ emit = EmitInit

\* A caller calls World::get_chunk(x, y, z) and keeps the Rc it gets.
GetChunk(c) ==
    /\ ~panicked
    /\ LET f == FetchAll(<<c>>, chunks, objs, <<>>)
           rc == f.got[1]
       IN  /\ Len(f.objs) <= MaxObj
           /\ held[rc] < MaxHeld
           /\ chunks' = f.chunks
           /\ objs' = f.objs
           /\ held' = [held EXCEPT ![rc] = @ + 1]
           /\ last' = [op |-> "get_chunk", arg |-> c, ret |-> rc]
    /\ UNCHANGED <<regions, panicked, emit>>

\* A caller drops one Rc<Chunk> it holds.
Release(o) ==
    /\ ~panicked
    /\ o \in 1..Len(objs)
    /\ held[o] > 0
    /\ held' = [held EXCEPT ![o] = @ - 1]
    /\ objs' = DropDead(objs, [held EXCEPT ![o] = @ - 1], regions)
    /\ last' = [op |-> "release", arg |-> o]
    /\ UNCHANGED <<chunks, regions, panicked, emit>>

\* CuboidRegion::new(world, start, end)
NewRegion(start, end) ==
    /\ ~panicked
    /\ regions = <<>>
    /\ LET bx == AxisBounds(start[1], end[1])
           by == AxisBounds(start[2], end[2])
           bz == AxisBounds(start[3], end[3])
           cs == RegionCoords(bx, by, bz)
           f  == FetchAll(cs, chunks, objs, <<>>)
       IN  /\ Len(f.objs) <= MaxObj
           /\ chunks' = f.chunks
           /\ objs' = f.objs
           /\ regions' = Append(regions,
                 [start_pos |-> <<bx[1], by[1], bz[1]>>,
                  shape |-> <<bx[2] - bx[1], by[2] - by[1], bz[2] - bz[1]>>,
                  chunks |-> f.got])
           /\ last' = [op |-> "new_region", arg |-> <<start, end>>, ret |-> cs]
    /\ UNCHANGED <<held, panicked, emit>>

\* A CuboidRegion is dropped, and with it the Rcs of its array.
DropRegion(i) ==
    /\ ~panicked
    /\ i \in 1..Len(regions)
    /\ regions' = SubSeq(regions, 1, i - 1) \o SubSeq(regions, i + 1, Len(regions))
    /\ objs' = DropDead(objs, held,
                        SubSeq(regions, 1, i - 1) \o SubSeq(regions, i + 1, Len(regions)))
    /\ last' = [op |-> "drop_region", arg |-> i]
    /\ UNCHANGED <<chunks, held, panicked, emit>>

\* StatePlaying::draw: region.draw(&self.block_render_types, draw_service, view)
Draw(i, facades) ==
    /\ ~panicked
    /\ i \in 1..Len(regions)
    /\ LET d == DrawFrom(regions[i], 1, block_render_types, facades, objs, <<>>)
       IN  /\ objs' = d.objs
           /\ panicked' = d.panicked
           /\ last' = [op |-> "draw", arg |-> i, ret |-> d.draws]
    /\ UNCHANGED <<chunks, held, regions, emit>>

\* A caller holding chunk o calls o.build_mesh(brd, adj, facade).
BuildMesh(o, brd, adj, facade) ==
    /\ ~panicked
    /\ Alive(o)
    /\ LET b == BuildMeshOn(objs[o], brd, adj, facade)
       IN  /\ objs' = [objs EXCEPT ![o] = b.chunk]
           /\ last' = [op |-> "build_mesh", arg |-> [chunk |-> o, brd |-> brd, adj |-> adj,
                                                     facade |-> facade,
                                                     cached |-> objs[o].mesh # None],
                       ret |-> b.ret]
    /\ UNCHANGED <<chunks, held, regions, panicked, emit>>

\* A caller builds a chunk of its own with Chunk::new(blocks) and keeps it.
ChunkNew(blocks) ==
    /\ objs = <<>>
    /\ objs' = <<NewChunk(None, blocks)>>
    /\ held' = [held EXCEPT ![1] = 1]
    /\ last' = [op |-> "chunk_new", arg |-> blocks, ret |-> 1]
    /\ UNCHANGED <<chunks, regions, panicked, emit>>

\* The World, its callers and its Regions.  Callers ask for the chunks of the
\* column x = 0; Regions are built over all of Coords.
CallerCoords == {c \in Coords : c[1] = 0}

Next ==
    \/ \E c \in CallerCoords : GetChunk(c)
    \/ \E o \in 1..MaxObj : Release(o)
    \/ \E s \in Coords, e \in Coords : NewRegion(s, e)
    \/ \E i \in 1..Len(regions) : DropRegion(i)
    \/ \E i \in 1..Len(regions) :
          \E fs \in FacadeRuns(Len(regions[i].chunks)) : Draw(i, fs)

Spec == Init /\ [][Next]_vars

\* One chunk built directly from a block grid, and build_mesh called on it any
\* number of times with any arguments and any answers of the facade.
NextChunk ==
    \/ \E g \in ChunkGrids : ChunkNew(g)
    \/ \E o \in 1..Len(objs), brd \in Catalogs, adj \in AdjInputs, f \in FacadeOutcomes :
          BuildMesh(o, brd, adj, f)

SpecChunk == Init /\ [][NextChunk]_vars

\* One chunk built directly from a block grid and meshed once.
MeshOnce(o, brd, adj) ==
    /\ objs[o].mesh = None
    /\ BuildMesh(o, brd, adj, FacadeOk)

NextMesh ==
    \/ \E g \in GridInputs : ChunkNew(g)
    \/ \E o \in 1..Len(objs), brd \in Catalogs, adj \in AdjInputs : MeshOnce(o, brd, adj)

SpecMesh == Init /\ [][NextMesh]_vars

\* The index bookkeeping of one build_mesh run, one emitted quad per step:
\* four vertices pushed, six indices pushed, quad_start += 4.  The sum that
\* overflows u16 wraps in a build without overflow checks and panics in one
\* with them.
EmitStep(e, wrapped) ==
    [quad_start  |-> wrapped,
     quads       |-> e.quads + 1,
     data_len    |-> e.data_len + 4,
     indices_len |-> e.indices_len + 6,
     tail        |-> QuadIndices(e.quad_start),
     panicked    |-> FALSE]

EmitQuad ==
    /\ ~emit.panicked
    /\ emit.quads < MaxQuads
    /\ ~U16Overflows(emit.quad_start, 4)
    /\ emit' = EmitStep(emit, emit.quad_start + 4)
    /\ UNCHANGED <<chunks, objs, held, regions, last, panicked>>

EmitQuadWrap ==
    /\ ~emit.panicked
    /\ emit.quads < MaxQuads
    /\ U16Overflows(emit.quad_start, 4)
    /\ emit' = EmitStep(emit, U16Add(emit.quad_start, 4))
    /\ UNCHANGED <<chunks, objs, held, regions, last, panicked>>

EmitQuadPanic ==
    /\ ~emit.panicked
    /\ emit.quads < MaxQuads
    /\ U16Overflows(emit.quad_start, 4)
    /\ emit' = [EmitStep(emit, emit.quad_start) EXCEPT !.panicked = TRUE]
    /\ UNCHANGED <<chunks, objs, held, regions, last, panicked>>

NextIndex == EmitQuad \/ EmitQuadWrap \/ EmitQuadPanic

SpecIndex == Init /\ [][NextIndex]_vars

\* A World in which callers fetch a few chunks and then one CuboidRegion is
\* built between any two corners of a small box, drawn and dropped.
RegionAxis == (0 - MaxCorner)..0
RegionWorld == RegionAxis \X RegionAxis \X RegionAxis

InitRegion ==
    /\ chunks = [c \in RegionWorld \cup Coords |-> 0]
    /\ objs = <<>>
    /\ held = [o \in 1..(MaxObj + Cardinality(RegionWorld)) |-> 0]
    /\ regions = <<>>
    /\ last = NoCall
    /\ panicked = FALSE
    /\ emit = EmitInit

\* CuboidRegion::new(world, start, end), once per behaviour.
CuboidRegionNew(start, end) ==
    /\ ~panicked
    /\ regions = <<>>
    /\ last.op \in {"none", "get_chunk"}
    /\ LET bx == AxisBounds(start[1], end[1])
           by == AxisBounds(start[2], end[2])
           bz == AxisBounds(start[3], end[3])
           cs == RegionCoords(bx, by, bz)
           f  == FetchAll(cs, chunks, objs, <<>>)
       IN  /\ chunks' = f.chunks
           /\ objs' = f.objs
           /\ regions' = Append(regions,
                 [start_pos |-> <<bx[1], by[1], bz[1]>>,
                  shape |-> <<bx[2] - bx[1], by[2] - by[1], bz[2] - bz[1]>>,
                  chunks |-> f.got])
           /\ last' = [op |-> "new_region", arg |-> <<start, end>>, ret |-> cs]
    /\ UNCHANGED <<held, panicked, emit>>

\* A caller fetches a chunk before the Region exists.
GetChunkFirst(c) == regions = <<>> /\ last.op \in {"none", "get_chunk"} /\ GetChunk(c)

NextRegion ==
    \/ \E c \in CallerCoords : GetChunkFirst(c)
    \/ \E s \in RegionWorld, e \in RegionWorld : CuboidRegionNew(s, e)
    \/ \E i \in 1..Len(regions) : DropRegion(i)
    \/ \E i \in 1..Len(regions) :
          \E fs \in FacadeRuns(Len(regions[i].chunks)) : Draw(i, fs)

SpecRegion == InitRegion /\ [][NextRegion]_vars

\* ================================================================ claims
\* ------------------------------------------------- reading a built mesh
\* The axis a direction points along, and the plane the face of cell p in
\* direction dir lies in.
DirAxis(dir) == CHOOSE a \in 1..3 : to_vec_arr(dir)[a] # 0
FacePlane(p, dir) ==
    p[DirAxis(dir)] + (IF to_vec_arr(dir)[DirAxis(dir)] = 1 THEN 1 ELSE 0)

\* The four vertices of the k-th quad of a vertex list (k from 1).
QuadOf(data, k) == {data[4 * (k - 1) + j] : j \in 1..4}

\* Some quad of the mesh has normal dir, lies in the plane of the dir-face of
\* cell p and spans that face.
FaceCovered(mesh, p, dir) ==
    \E k \in 1..(Len(mesh.data) \div 4) :
        LET vs == QuadOf(mesh.data, k)
        IN  /\ \A vx \in vs : /\ vx.normal = to_vec_arr(dir)
                              /\ vx.position[DirAxis(dir)] = FacePlane(p, dir)
            /\ \A b \in (1..3) \ {DirAxis(dir)} :
                  /\ \E vx \in vs : vx.position[b] <= p[b]
                  /\ \E vx \in vs : vx.position[b] >= p[b] + 1

CellPlus(p, dir) ==
    <<p[1] + to_vec_arr(dir)[1], p[2] + to_vec_arr(dir)[2], p[3] + to_vec_arr(dir)[3]>>

\* The cell of the adjacent chunk that touches boundary cell p in direction dir.
CellAcross(p, dir) ==
    LET q == CellPlus(p, dir)
    IN  <<q[1] % CHUNK_SIZE, q[2] % CHUNK_SIZE, q[3] % CHUNK_SIZE>>

\* Every block of the grid is visible and occludes on all six sides.
FullyOccluding(brd, grid) ==
    \A p \in Cells : /\ brd[grid[p]].should_render
                     /\ \A d \in Directions : obscures(brd[grid[p]], d)

\* The latest call was a build_mesh that computed the mesh it returned.
BuiltNow == last.op = "build_mesh" /\ ~last.arg.cached /\ last.ret.ok

\* ---------------------------------------------------------------- C1
\* C1: at most one live chunk object exists per coordinate, and the chunk a
\* get_chunk(x, y, z) returns is the live chunk of that coordinate and the one
\* the cache points at; so a call made while an earlier result for the
\* coordinate is still held returns that very object.
C1_OneLiveChunkPerCoordinate ==
    /\ \A o1 \in 1..Len(objs), o2 \in 1..Len(objs) :
          (Alive(o1) /\ Alive(o2) /\ objs[o1].coord = objs[o2].coord) => o1 = o2
    /\ last.op = "get_chunk" =>
          /\ Alive(last.ret)
          /\ objs[last.ret].coord = last.arg
          /\ chunks[last.arg] = last.ret

\* A get_chunk answered with a chunk a Region still holds, after some other
\* chunk has been released and died.
C1_Witness ==
    /\ last.op = "get_chunk"
    /\ RegionRefs(regions, last.ret) > 0
    /\ held[last.ret] > 0
    /\ \E o \in 1..Len(objs) : ~Alive(o)

\* ---------------------------------------------------------------- C2
\* C2: a chunk full of fully-occluding visible blocks, meshed with an equally
\* full chunk in the slot of the direction it lies in (slot to_index(Up) for
\* the chunk above, slot to_index(Down) for the chunk below), emits no quad on
\* the shared boundary plane.
C2_StackedBoundaryCulled ==
    BuiltNow =>
        LET blocks == objs[last.arg.chunk].blocks
            brd    == last.arg.brd
            adj    == last.arg.adj
            Full(slot) == adj[slot] # None /\ FullyOccluding(brd, adj[slot][1])
        IN  FullyOccluding(brd, blocks) =>
              /\ Full(to_index("Up")) =>
                    \A p \in Cells : p[3] = CHUNK_SIZE - 1 => ~FaceCovered(last.ret.val, p, "Up")
              /\ Full(to_index("Down")) =>
                    \A p \in Cells : p[3] = 0 => ~FaceCovered(last.ret.val, p, "Down")

\* ---------------------------------------------------------------- C3
\* C3: after a draw, for two adjacent chunks of the Region, no face of one on
\* their shared boundary is emitted when the touching block of the other
\* occludes it.
C3_RegionNeighboursCull ==
    (last.op = "draw" /\ ~panicked) =>
        LET r == regions[last.arg]
        IN  \A i \in 1..Len(r.chunks), j \in 1..Len(r.chunks), d \in Directions :
              LET ci == objs[r.chunks[i]]
                  cj == objs[r.chunks[j]]
              IN  cj.coord = CoordPlus(ci.coord, d) =>
                    \A p \in Cells :
                      ( /\ CellPlus(p, d) \notin Cells
                        /\ block_render_types[ci.blocks[p]].should_render
                        /\ obscures(block_render_types[cj.blocks[CellAcross(p, d)]], Neg(d)) )
                      => ~FaceCovered(ci.mesh[1], p, d)

\* ---------------------------------------------------------------- C4
\* C4: the mesh data has 4 vertices and 6 indices per emitted quad, the six
\* indices of the k-th quad (k from 0) are 4k+0, 4k+1, 4k+2, 4k+3, 4k+2, 4k+1,
\* and every index is smaller than the number of vertices.
C4_IndicesReferenceOwnQuad ==
    (emit.quads > 0 /\ ~emit.panicked) =>
        LET k == emit.quads - 1
        IN  /\ emit.data_len = 4 * emit.quads
            /\ emit.indices_len = 6 * emit.quads
            /\ emit.tail = <<4 * k, 4 * k + 1, 4 * k + 2, 4 * k + 3, 4 * k + 2, 4 * k + 1>>
            /\ \A i \in 1..6 : emit.tail[i] < emit.data_len

\* ---------------------------------------------------------------- C5
\* C5: a failing buffer creation during a draw comes back as an error value;
\* the core never brings the process down.
C5_FailurePropagated == ~panicked

\* ---------------------------------------------------------------- C6
\* C6: once a chunk's mesh cache is populated no step changes it, and every
\* build_mesh on that chunk returns the cached buffers, whatever catalog,
\* neighbours or facade it is given.
C6_MeshCacheWriteOnce ==
    [][\A o \in 1..Len(objs) :
          objs[o].mesh # None =>
            /\ objs'[o].mesh = objs[o].mesh
            /\ (last'.op = "build_mesh" /\ last'.arg.chunk = o) =>
                  last'.ret = Ok(objs[o].mesh[1])]_vars

\* A build_mesh answered from the cache although its arguments would give
\* another mesh and its facade would refuse the vertex buffer.
C6_Witness ==
    /\ last.op = "build_mesh"
    /\ last.arg.cached
    /\ ~last.arg.facade.vertex
    /\ last.ret.ok
    /\ last.ret.val # MeshData(objs[last.arg.chunk].blocks, last.arg.brd, last.arg.adj)

\* ---------------------------------------------------------------- C7
\* C7: a build_mesh that computes the mesh returns the error of the first
\* buffer whose creation fails (the vertex buffer before the index buffer) and
\* leaves the cache empty, and stores and returns the mesh when both succeed;
\* and a build_mesh that follows a failed one, with a facade that succeeds,
\* computes the mesh again and succeeds.
C7_FailureLeavesCacheEmpty ==
    /\ [](last.op = "build_mesh" /\ ~last.arg.cached =>
            LET f == last.arg.facade
                c == objs[last.arg.chunk]
            IN  /\ ~f.vertex =>
                      last.ret = Err("VertexBufferCreationFailed") /\ c.mesh = None
                /\ (f.vertex /\ ~f.index) =>
                      last.ret = Err("IndexBufferCreationFailed") /\ c.mesh = None
                /\ (f.vertex /\ f.index) =>
                      /\ last.ret = Ok(MeshData(c.blocks, last.arg.brd, last.arg.adj))
                      /\ c.mesh = Some(last.ret.val))
    /\ [][(/\ last.op = "build_mesh" /\ ~last.ret.ok
           /\ last'.op = "build_mesh" /\ last'.arg.chunk = last.arg.chunk
           /\ last'.arg.facade = FacadeOk)
          => (last'.ret.ok /\ ~last'.arg.cached)]_vars

\* The vertex buffer was created, the index buffer was not: the error names
\* the index buffer and the cache is empty.
C7_Witness ==
    /\ last.op = "build_mesh"
    /\ last.arg.facade.vertex /\ ~last.arg.facade.index
    /\ last.ret = Err("IndexBufferCreationFailed")
    /\ objs[last.arg.chunk].mesh = None

\* ---------------------------------------------------------------- C8
\* C8: a get_chunk for a coordinate whose cache entry points at a chunk with
\* no holder left does not return that chunk but a newly allocated one, puts
\* it in the cache in place of the stale entry, and the new chunk's block grid
\* equals the released one's; at all times the entry of a coordinate points at
\* the latest chunk generated for it, and any two chunks generated for one
\* coordinate have identical grids.
C8_StaleEntryRegenerated ==
    /\ [](\A o1 \in 1..Len(objs), o2 \in 1..Len(objs) :
            objs[o1].coord = objs[o2].coord => objs[o1].blocks = objs[o2].blocks)
    /\ [](\A c \in Coords : chunks[c] # 0 =>
            /\ objs[chunks[c]].coord = c
            /\ \A o \in 1..Len(objs) : objs[o].coord = c => o <= chunks[c])
    /\ [][\A c \in Coords :
            ( /\ chunks[c] # 0
              /\ StrongCount(chunks[c]) = 0
              /\ last'.op = "get_chunk"
              /\ last'.arg = c )
            => /\ last'.ret # chunks[c]
               /\ last'.ret = Len(objs) + 1
               /\ Len(objs') = Len(objs) + 1
               /\ chunks'[c] = last'.ret
               /\ objs'[last'.ret].coord = c
               /\ objs'[last'.ret].blocks = objs[chunks[c]].blocks
               /\ objs'[last'.ret].mesh = None]_vars

\* A get_chunk that has just allocated a chunk for a coordinate whose earlier
\* chunk is dead, the grid being one with both solid and air blocks.
C8_Witness ==
    /\ last.op = "get_chunk"
    /\ last.ret = Len(objs)
    /\ \E o \in 1..(Len(objs) - 1) :
          /\ objs[o].coord = last.arg
          /\ ~Alive(o)
          /\ objs[o].blocks = objs[last.ret].blocks
    /\ \E p \in Cells, q \in Cells :
          objs[last.ret].blocks[p] = 1 /\ objs[last.ret].blocks[q] = 0

\* ---------------------------------------------------------------- C9
\* C9: in a build_mesh that computes the mesh, for every direction D and cell:
\* an invisible cell has no D-face; a visible cell whose D-neighbour lies in the
\* chunk has its D-face exactly when the neighbouring block's occlusion bit for
\* the direction opposite to D is clear; a visible cell on the D-boundary has
\* its D-face whenever the slot of direction D holds no neighbour chunk; and
\* then the D-faces are those of the chunk meshed standalone.
C9_FaceEmissionRule ==
    BuiltNow =>
        LET blocks == objs[last.arg.chunk].blocks
            brd    == last.arg.brd
            adj    == last.arg.adj
            mesh   == last.ret.val
            alone  == MeshData(blocks, brd, AllNone)
        IN  \A d \in Directions, p \in Cells :
              LET own == brd[blocks[p]]
              IN  /\ ~own.should_render => ~FaceCovered(mesh, p, d)
                  /\ (own.should_render /\ CellPlus(p, d) \in Cells) =>
                        (FaceCovered(mesh, p, d)
                            <=> ~obscures(brd[blocks[CellPlus(p, d)]], Neg(d)))
                  /\ (own.should_render /\ CellPlus(p, d) \notin Cells
                        /\ adj[to_index(d)] = None) =>
                        FaceCovered(mesh, p, d)
                  /\ adj[to_index(d)] = None =>
                        (FaceCovered(mesh, p, d) <=> FaceCovered(alone, p, d))

\* ---------------------------------------------------------------- C10
\* The quads a build_mesh run emitted from the slice of direction dir and
\* layer w, in emission order.
SliceQuads(mesh, dir, w) ==
    LET OfSlice(q) == q.dir = dir /\ q.w = w
    IN  SelectSeq(mesh.quads, OfSlice)

QuadCells(q) ==
    {c \in SliceCells : /\ c[1] \in q.u..(q.u + q.width - 1)
                        /\ c[2] \in q.v..(q.v + q.height - 1)}

\* The slice as it stands when the k-th quad of qs is about to be found.
Remaining(slice, qs, k) ==
    [c \in SliceCells |->
        IF \E j \in 1..(k - 1) : c \in QuadCells(qs[j]) THEN None ELSE slice[c]]

\* Scan order: lowest v, then lowest u.
ScanBefore(a, b) == a[2] < b[2] \/ (a[2] = b[2] /\ a[1] < b[1])

\* q is the rectangle the greedy rule takes from slice rem.
GreedyQuad(rem, q) ==
    /\ rem[<<q.u, q.v>>] = Some(q.color)
    /\ \A c \in SliceCells : ScanBefore(c, <<q.u, q.v>>) => rem[c] = None
    /\ q.width >= 1
    /\ \A i \in 0..(q.width - 1) : rem[<<q.u + i, q.v>>] = Some(q.color)
    /\ q.u + q.width = CHUNK_SIZE \/ rem[<<q.u + q.width, q.v>>] # Some(q.color)
    /\ q.height >= 1
    /\ \A j \in 0..(q.height - 1), i \in 0..(q.width - 1) :
          rem[<<q.u + i, q.v + j>>] = Some(q.color)
    /\ \/ q.v + q.height = CHUNK_SIZE
       \/ \E i \in 0..(q.width - 1) : rem[<<q.u + i, q.v + q.height>>] # Some(q.color)

\* The quads of the vertex list whose normal is that of dir, as vertex sets.
QuadsFacing(mesh, dir) ==
    {k \in 1..(Len(mesh.data) \div 4) :
        \A vx \in QuadOf(mesh.data, k) : vx.normal = to_vec_arr(dir)}

\* The grid is air but for layer z0, which is full of the visible block b.
IsSlab(grid, brd, z0, b) ==
    /\ brd[b].should_render
    /\ ~brd[0].should_render
    /\ \A p \in Cells : grid[p] = (IF p[3] = z0 THEN b ELSE 0)

\* The corners of the horizontal square over the whole chunk at height z.
LayerCorners(z) == {<<x, y, z>> : x \in {0, CHUNK_SIZE}, y \in {0, CHUNK_SIZE}}

\* C10: each quad of a slice is the rectangle the greedy rule takes from what
\* the earlier quads of the slice left (first exposed cell by lowest v then
\* lowest u, widest run of its colour along u, then tallest strip of that
\* colour along v), and the quads consume every exposed cell; so a slice that
\* is exposed everywhere in one colour gives one quad over the whole slice, and
\* a one-block-thick full layer of one block in air gives one quad upwards and
\* one downwards, each over the whole layer.
C10_GreedyMergeOrder ==
    BuiltNow =>
        LET blocks == objs[last.arg.chunk].blocks
            brd    == last.arg.brd
            adj    == last.arg.adj
            mesh   == last.ret.val
        IN  /\ \A d \in Directions, w \in Idx :
                  LET slice == BuildSlice(blocks, brd, adj, d, w)
                      qs    == SliceQuads(mesh, d, w)
                  IN  /\ \A k \in 1..Len(qs) : GreedyQuad(Remaining(slice, qs, k), qs[k])
                      /\ \A c \in SliceCells : Remaining(slice, qs, Len(qs) + 1)[c] = None
                      /\ (\E col \in Range(slice) :
                              col # None /\ \A c \in SliceCells : slice[c] = col)
                         => /\ Len(qs) = 1
                            /\ qs[1].u = 0 /\ qs[1].v = 0
                            /\ qs[1].width = CHUNK_SIZE /\ qs[1].height = CHUNK_SIZE
            /\ \A z0 \in Idx, b \in BlockIds :
                  (IsSlab(blocks, brd, z0, b) /\ adj = AllNone) =>
                      /\ Cardinality(QuadsFacing(mesh, "Up")) = 1
                      /\ Cardinality(QuadsFacing(mesh, "Down")) = 1
                      /\ \A k \in QuadsFacing(mesh, "Up") :
                            {vx.position : vx \in QuadOf(mesh.data, k)} = LayerCorners(z0 + 1)
                      /\ \A k \in QuadsFacing(mesh, "Down") :
                            {vx.position : vx \in QuadOf(mesh.data, k)} = LayerCorners(z0)

\* A one-block-thick layer meshed with no neighbours: six quads, the one
\* facing up two cells wide and two cells high.
C10_Witness ==
    /\ BuiltNow
    /\ last.arg.adj = AllNone
    /\ \E z0 \in Idx, b \in BlockIds :
          IsSlab(objs[last.arg.chunk].blocks, last.arg.brd, z0, b)
    /\ Len(last.ret.val.quads) = 6
    /\ \E k \in 1..6 : /\ last.ret.val.quads[k].dir = "Up"
                       /\ last.ret.val.quads[k].width = CHUNK_SIZE
                       /\ last.ret.val.quads[k].height = CHUNK_SIZE

\* ---------------------------------------------------------------- C11
Minus(a, b) == <<a[1] - b[1], a[2] - b[2], a[3] - b[3]>>
Cross(a, b) ==
    <<a[2] * b[3] - a[3] * b[2], a[3] * b[1] - a[1] * b[3], a[1] * b[2] - a[2] * b[1]>>

\* The geometric normal (right-hand rule, not normalised) of the triangle whose
\* corners are the vertices at positions i, i + 1, i + 2 of the index list.
TriangleNormal(mesh, i) ==
    LET P(j) == mesh.data[mesh.indices[i + j] + 1].position
    IN  Cross(Minus(P(1), P(0)), Minus(P(2), P(0)))

\* The corners of the face of cell p in direction dir.
FaceCorners(p, dir) ==
    {c \in (0..CHUNK_SIZE) \X (0..CHUNK_SIZE) \X (0..CHUNK_SIZE) :
        /\ c[DirAxis(dir)] = FacePlane(p, dir)
        /\ \A b \in (1..3) \ {DirAxis(dir)} : c[b] \in {p[b], p[b] + 1}}

\* The grid holds one visible block, at p, and air elsewhere.
SingleBlockAt(grid, brd, p) ==
    /\ brd[grid[p]].should_render
    /\ ~brd[0].should_render
    /\ \A q \in Cells \ {p} : grid[q] = 0

\* C11: a chunk holding one visible block and otherwise air, meshed with no
\* neighbours, gives exactly 6 quads, one per direction; the four vertices of
\* the quad of direction D are the corners of the block's D-face (on the plane
\* coordinate + 1 for Up, Right, Front and coordinate for Down, Left, Back),
\* each with D's unit vector as normal, and both of its triangles (indices
\* 0,1,2 and 3,2,1 of the quad) have D's unit vector as geometric normal.
C11_SingleBlockSixFaces ==
    (BuiltNow /\ last.arg.adj = AllNone) =>
        LET blocks == objs[last.arg.chunk].blocks
            brd    == last.arg.brd
            mesh   == last.ret.val
        IN  \A p \in Cells :
              SingleBlockAt(blocks, brd, p) =>
                /\ Len(mesh.data) = 4 * 6
                /\ Len(mesh.indices) = 6 * 6
                /\ \A d \in Directions :
                      /\ Cardinality(QuadsFacing(mesh, d)) = 1
                      /\ \A k \in QuadsFacing(mesh, d) :
                            /\ {vx.position : vx \in QuadOf(mesh.data, k)} = FaceCorners(p, d)
                            /\ Cardinality(FaceCorners(p, d)) = 4
                            /\ \A vx \in QuadOf(mesh.data, k) : vx.normal = to_vec_arr(d)
                            /\ \A j \in 1..6 :
                                  mesh.indices[6 * (k - 1) + j]
                                      = 4 * (k - 1) + <<0, 1, 2, 3, 2, 1>>[j]
                            /\ TriangleNormal(mesh, 6 * (k - 1) + 1) = to_vec_arr(d)
                            /\ TriangleNormal(mesh, 6 * (k - 1) + 4) = to_vec_arr(d)

\* A single block away from the origin corner, meshed with no neighbours.
C11_Witness ==
    /\ BuiltNow
    /\ last.arg.adj = AllNone
    /\ SingleBlockAt(objs[last.arg.chunk].blocks, last.arg.brd, <<1, 0, 1>>)
    /\ Len(last.ret.val.data) = 24

\* ---------------------------------------------------------------- C12
\* Ascending x-then-y-then-z order of coordinates.
LexLess(a, b) ==
    \/ a[1] < b[1]
    \/ a[1] = b[1] /\ a[2] < b[2]
    \/ a[1] = b[1] /\ a[2] = b[2] /\ a[3] < b[3]

Lo(a, b) == IF a <= b THEN a ELSE b
Hi(a, b) == IF a <= b THEN b ELSE a

\* Every coordinate between the two corners, on each axis.
CornerBox(s, e) ==
    (Lo(s[1], e[1])..Hi(s[1], e[1])) \X (Lo(s[2], e[2])..Hi(s[2], e[2]))
        \X (Lo(s[3], e[3])..Hi(s[3], e[3]))

\* C12: CuboidRegion::new(start, end) fetches every coordinate between the two
\* corners, each once, in ascending x-then-y-then-z order, (|end - start| + 1
\* per axis), which is also what the construction with the corners exchanged
\* fetches; the chunk stored at each array position is the one of that
\* coordinate, and the Region's origin is the per-axis minimum.
C12_RegionCornersSymmetric ==
    last.op = "new_region" =>
        LET s  == last.arg[1]
            e  == last.arg[2]
            cs == last.ret
            r  == regions[Len(regions)]
        IN  /\ Range(cs) = CornerBox(s, e)
            /\ Len(cs) = (Hi(s[1], e[1]) - Lo(s[1], e[1]) + 1)
                         * (Hi(s[2], e[2]) - Lo(s[2], e[2]) + 1)
                         * (Hi(s[3], e[3]) - Lo(s[3], e[3]) + 1)
            /\ \A i \in 1..(Len(cs) - 1) : LexLess(cs[i], cs[i + 1])
            /\ cs = RegionCoords(AxisBounds(e[1], s[1]), AxisBounds(e[2], s[2]),
                                 AxisBounds(e[3], s[3]))
            /\ r.start_pos = <<Lo(s[1], e[1]), Lo(s[2], e[2]), Lo(s[3], e[3])>>
            /\ Len(r.chunks) = Len(cs)
            /\ \A i \in 1..Len(cs) : objs[r.chunks[i]].coord = cs[i]

\* A Region built from its upper corner to its lower one, over all of the box.
C12_Witness ==
    /\ last.op = "new_region"
    /\ \A a \in 1..3 : last.arg[1][a] = 0 /\ last.arg[2][a] = 0 - MaxCorner
    /\ Len(last.ret) = Cardinality(RegionWorld)
    /\ Len(regions) = 1

\* ---------------------------------------------------------------- C13
\* C13: a draw in which every mesh build succeeds issues one draw call per
\* chunk of the Region, in ascending x-then-y-then-z order of the chunk
\* coordinates, each with the translation CHUNK_SIZE times the coordinate of
\* the chunk drawn, that chunk being the live chunk of that coordinate.
C13_DrawCallPerChunkInPlace ==
    (last.op = "draw" /\ ~panicked) =>
        LET r     == regions[last.arg]
            draws == last.ret
        IN  /\ Len(draws) = r.shape[1] * r.shape[2] * r.shape[3]
            /\ Len(draws) = Len(r.chunks)
            /\ \A i \in 1..Len(draws) :
                  LET c == objs[draws[i].chunk].coord
                  IN  /\ draws[i].chunk = r.chunks[i]
                      /\ c # None
                      /\ draws[i].translation
                            = <<c[1] * CHUNK_SIZE, c[2] * CHUNK_SIZE, c[3] * CHUNK_SIZE>>
                      /\ chunks[c] = draws[i].chunk
                      /\ \A a \in 1..3 :
                            c[a] \in r.start_pos[a]..(r.start_pos[a] + r.shape[a] - 1)
            /\ \A i \in 1..(Len(draws) - 1) :
                  LexLess(objs[draws[i].chunk].coord, objs[draws[i + 1].chunk].coord)

\* A draw of a Region that spans the whole box, every build succeeding, one of
\* its chunks having been fetched by a caller before the Region was built.
C13_Witness ==
    /\ last.op = "draw"
    /\ ~panicked
    /\ Len(last.ret) = Cardinality(RegionWorld)
    /\ \E i \in 1..Len(last.ret) : last.ret[i].chunk < i

\* ---------------------------------------------------------------- C14
\* The quad lies inside the slice and is not empty.
InsideSlice(q) ==
    /\ q.u >= 0 /\ q.v >= 0
    /\ q.width >= 1 /\ q.height >= 1
    /\ q.u + q.width <= CHUNK_SIZE
    /\ q.v + q.height <= CHUNK_SIZE

\* C14: for every direction and layer, the quads emitted from the slice lie
\* inside it, cover only cells that held the quad's colour after slice
\* construction, do not overlap, and between them cover every cell that held
\* a colour, each exactly once, so that nothing of the slice is left when the
\* merge loop ends.
C14_QuadsPartitionSlice ==
    BuiltNow =>
        LET blocks == objs[last.arg.chunk].blocks
            brd    == last.arg.brd
            adj    == last.arg.adj
            mesh   == last.ret.val
        IN  \A d \in Directions, w \in Idx :
              LET slice == BuildSlice(blocks, brd, adj, d, w)
                  qs    == SliceQuads(mesh, d, w)
              IN  /\ \A k \in 1..Len(qs) :
                        /\ InsideSlice(qs[k])
                        /\ Cardinality(QuadCells(qs[k])) = qs[k].width * qs[k].height
                        /\ \A c \in QuadCells(qs[k]) : slice[c] = Some(qs[k].color)
                  /\ \A j \in 1..Len(qs), k \in 1..Len(qs) :
                        j # k => QuadCells(qs[j]) \cap QuadCells(qs[k]) = {}
                  /\ \A c \in SliceCells :
                        slice[c] # None =>
                            Cardinality({k \in 1..Len(qs) : c \in QuadCells(qs[k])}) = 1
                  /\ \A c \in SliceCells :
                        slice[c] = None => \A k \in 1..Len(qs) : c \notin QuadCells(qs[k])
                  /\ 4 * Len(mesh.quads) = Len(mesh.data)

\* A slice of two colours merged into more than one quad, one of them larger
\* than a cell.
C14_Witness ==
    /\ BuiltNow
    /\ \E d \in Directions, w \in Idx :
          LET qs == SliceQuads(last.ret.val, d, w)
          IN  /\ Len(qs) >= 2
              /\ \E j \in 1..Len(qs), k \in 1..Len(qs) :
                    /\ qs[j].color # qs[k].color
                    /\ qs[j].width * qs[j].height >= 2
====
